---- MODULE Spec2Model ----
(***************************************************************************)
(* Model of package cache (src/cache.go): GenericCache[T], a typed facade  *)
(* over a github.com/patrickmn/go-cache store (imported at cache.go:8),    *)
(* and NumericCache[T], which adds Increment/Decrement under a wrapper     *)
(* mutex.                                                                  *)
(*                                                                         *)
(* The store g.cache is the go-cache item map: key -> Item{Object,         *)
(* Expiration}, Expiration being an absolute clock reading, 0 for an item  *)
(* that never expires.  The cache_* operators give the behaviour of the    *)
(* go-cache methods the facade calls, each at its call site in cache.go.   *)
(***************************************************************************)
EXTENDS Integers, FiniteSets, Sequences, TLC

\* ------------------------------------------------------------------ bounds
MaxTime == 3
MaxDur == 2
BitWidth == 2
NumProcs == 2

\* ------------------------------------------------------- program constants
NoExpiration == -1
DefaultExpiration == 0

\* ------------------------------------------------------------ input sets
Keys == {"a", "b"}
Modulus == 2 ^ BitWidth
\* T: an unsigned integer type of BitWidth bits (one member of Numeric)
Values == 0 .. (Modulus - 1)
\* the values and deltas callers pass
SomeValues == {0, 1}
SomeDeltas == {1, Modulus - 1}
\* the bit pattern that a signed T reads as its most negative value
MinSigned == Modulus \div 2
\* durations a caller passes: both sentinels, another negative, positive TTLs
Durations == (-2) .. MaxDur
\* defaultExpiration arguments given to New
DefaultArgs == {NoExpiration, DefaultExpiration, MaxDur}
CleanupArgs == {0, 1}
Procs == 1 .. NumProcs
NoProc == 0

VARIABLES
    items,              \* g.cache: the go-cache item map
    now,                \* the clock read by time.Now()
    defaultExpiration,  \* the store's default expiration, fixed by New
    cleanupInterval,    \* the store's janitor interval, fixed by New
    call,               \* the most recent direct call, tick or sweep
    ret,                \* what that call returned
    wrote,              \* per key: the last Set still standing (history)
    buf,                \* the byte stream written by DumpTo
    cmu,                \* the store's own mutex: the goroutine holding it
    mu,                 \* NumericCache.mu: the goroutine holding it
    pc,                 \* per goroutine: position inside its call
    key,                \* per goroutine: the call's key argument
    delta,              \* per goroutine: Increment's delta argument
    v                   \* per goroutine: Increment's local v, Add's value

vars == <<items, now, defaultExpiration, cleanupInterval, call, ret, wrote,
          buf, cmu, mu, pc, key, delta, v>>

\* ------------------------------------------------------------- arithmetic
\* T arithmetic wraps at the type's width (Go integer overflow)
Wrap(x) == x % Modulus

\* ------------------------------------------------------- the go-cache store
Item(x, e) == [Object |-> x, Expiration |-> e]
EmptyItems == [k \in {} |-> Item(0, 0)]

\* go-cache newCache: a default of 0 is stored as -1
NormalizeDefault(de) == IF de = 0 THEN -1 ELSE de

\* faulty variant: only the NoExpiration sentinel means never
Expiration_onlySentinel(d) ==
    LET dd == IF d = DefaultExpiration THEN defaultExpiration ELSE d
    IN  IF dd = NoExpiration THEN 0 ELSE now + dd

\* go-cache Set/set: 0 selects the store default; only a duration > 0 gives
\* an expiration time, every other duration leaves Expiration 0 (never)
Expiration(d) ==
    LET dd == IF d = DefaultExpiration THEN defaultExpiration ELSE d
    IN  IF dd > 0 THEN now + dd ELSE 0

\* faulty variant: an item expires at its expiration time, not after it
Expired_atDeadline(it) == it.Expiration > 0 /\ now >= it.Expiration

\* faulty variant: Expiration 0 is read as a time
Expired_zeroIsATime(it) == now > it.Expiration

\* go-cache Item.Expired / the inline test of Get, get and DeleteExpired
Expired(it) == it.Expiration > 0 /\ now > it.Expiration

Found(m, k) == k \in DOMAIN m /\ ~Expired(m[k])

Put(m, k, it) == [x \in (DOMAIN m) \cup {k} |-> IF x = k THEN it ELSE m[x]]

cache_Set(m, k, x, d) == Put(m, k, Item(x, Expiration(d)))

cache_Get(m, k) ==
    IF Found(m, k) THEN [result |-> m[k].Object, exists |-> TRUE]
    ELSE [result |-> 0, exists |-> FALSE]

cache_Delete(m, k) == [x \in (DOMAIN m) \ {k} |-> m[x]]

cache_DeleteExpired(m) == [x \in {y \in DOMAIN m : ~Expired(m[y])} |-> m[x]]

\* faulty variant: any entry under the key, expired or not, blocks Add
cache_Add_anyEntryBlocks(m, k, x, d) ==
    IF k \in DOMAIN m THEN [items |-> m, err |-> TRUE]
    ELSE [items |-> cache_Set(m, k, x, d), err |-> FALSE]

\* go-cache Add: an error, and no write, when a live item exists
cache_Add(m, k, x, d) ==
    IF Found(m, k) THEN [items |-> m, err |-> TRUE]
    ELSE [items |-> cache_Set(m, k, x, d), err |-> FALSE]

\* go-cache Replace: an error, and no write, unless a live item exists
cache_Replace(m, k, x, d) ==
    IF ~Found(m, k) THEN [items |-> m, err |-> TRUE]
    ELSE [items |-> cache_Set(m, k, x, d), err |-> FALSE]

cache_Flush == EmptyItems

\* gob encoding of an item map: one entry per key, in some order; a field
\* holding its zero value (Expiration 0) is not transmitted
RECURSIVE Encode(_)
Encode(m) ==
    IF DOMAIN m = {} THEN << >>
    ELSE LET k == CHOOSE x \in DOMAIN m : TRUE
             rest == [x \in (DOMAIN m) \ {k} |-> m[x]]
         IN  <<IF m[k].Expiration = 0 THEN <<k, m[k].Object>>
               ELSE <<k, m[k].Object, m[k].Expiration>>>> \o Encode(rest)

\* gob decoding into an item map: a field not transmitted keeps its zero value
Decode(s) ==
    LET at(k) == CHOOSE i \in 1 .. Len(s) : s[i][1] = k
    IN  [k \in {s[i][1] : i \in 1 .. Len(s)} |->
            Item(s[at(k)][2], IF Len(s[at(k)]) = 3 THEN s[at(k)][3] ELSE 0)]

\* go-cache Save: gob-encodes the whole item map, expired items included
cache_Save(m) == Encode(m)

\* faulty variant: Load stores every item of the snapshot
cache_Load_overwrites(m, s) ==
    LET dec == Decode(s)
    IN  [x \in (DOMAIN m) \cup (DOMAIN dec) |->
            IF x \in DOMAIN dec THEN dec[x] ELSE m[x]]

\* faulty variant: Load stores only the items whose key the store holds
\* expired
cache_Load_onlyExpired(m, s) ==
    LET dec == Decode(s)
        K == (DOMAIN m) \cup {x \in DOMAIN dec : x \in DOMAIN m /\ Expired(m[x])}
    IN  [x \in K |-> IF x \in DOMAIN dec /\ Expired(m[x]) THEN dec[x] ELSE m[x]]

\* go-cache Load: decodes an item map and stores each of its items whose key
\* is not found in the store or is found expired there
cache_Load(m, s) ==
    LET dec == Decode(s)
    IN  [x \in (DOMAIN m) \cup (DOMAIN dec) |->
            IF x \in DOMAIN dec /\ (x \notin DOMAIN m \/ Expired(m[x]))
            THEN dec[x] ELSE m[x]]

\* ------------------------------------------------------------ return values
Void == [result |-> 0, ok |-> TRUE]
Returned(x, b) == [result |-> x, ok |-> b]
Call(op, k, x, d) == [op |-> op, key |-> k, value |-> x, expireIn |-> d]
NoKey == "-"
NoWrite == [value |-> 0, at |-> 0, expireIn |-> 0]
\* a byte stream: one that gob decodes to an item map, or one that does not
Stream(b) == [readable |-> TRUE, bytes |-> b]
Unreadable == [readable |-> FALSE, bytes |-> << >>]

storeVars == <<defaultExpiration, cleanupInterval, cmu>>
procVars == <<mu, pc, key, delta, v>>

\* ------------------------------------------------------------ GenericCache
\* Each facade method: its effect on g.cache and its return value.
SetWithExpireIn(k, value, expireIn) ==
    /\ items' = cache_Set(items, k, value, expireIn)
    /\ ret' = Void

Set(k, x) == SetWithExpireIn(k, x, DefaultExpiration)

\* faulty variant: Get returns whatever item the map holds under the key
Get_ignoresExpiry(k) ==
    IF k \notin DOMAIN items THEN Returned(0, FALSE)
    ELSE Returned(items[k].Object, TRUE)

\* Get's return pair: the zero value of T and false unless g.cache.Get finds
Get(k) ==
    LET r == cache_Get(items, k)
    IN  IF ~r.exists THEN Returned(0, FALSE) ELSE Returned(r.result, TRUE)

Delete(k) ==
    /\ items' = cache_Delete(items, k)
    /\ ret' = Void

\* faulty variant: DeleteExpired calls g.cache.Flush
DeleteExpired_callsFlush ==
    /\ items' = cache_Flush
    /\ ret' = Void

DeleteExpired ==
    /\ items' = cache_DeleteExpired(items)
    /\ ret' = Void

\* faulty variant: AddWithExpireIn calls g.cache.Set
AddWithExpireIn_callsSet(k, value, expireIn) ==
    /\ items' = cache_Set(items, k, value, expireIn)
    /\ ret' = Returned(0, TRUE)

AddWithExpireIn(k, value, expireIn) ==
    LET r == cache_Add(items, k, value, expireIn)
    IN  /\ items' = r.items
        /\ ret' = Returned(0, ~r.err)

Add(k, value) == AddWithExpireIn(k, value, DefaultExpiration)

SetIfNotExistsWithExpireIn(k, value, expireIn) ==
    LET r == cache_Add(items, k, value, expireIn)
    IN  /\ items' = r.items
        /\ ret' = Returned(0, ~r.err)

SetIfNotExists(k, value) ==
    SetIfNotExistsWithExpireIn(k, value, DefaultExpiration)

\* faulty variant: ReplaceWithExpireIn calls g.cache.Set
ReplaceWithExpireIn_callsSet(k, value, expireIn) ==
    /\ items' = cache_Set(items, k, value, expireIn)
    /\ ret' = Returned(0, TRUE)

ReplaceWithExpireIn(k, value, expireIn) ==
    LET r == cache_Replace(items, k, value, expireIn)
    IN  /\ items' = r.items
        /\ ret' = Returned(0, ~r.err)

Replace(k, value) == ReplaceWithExpireIn(k, value, DefaultExpiration)

SetIfExistsWithExpireIn(k, value, expireIn) ==
    ReplaceWithExpireIn(k, value, expireIn)

SetIfExists(k, value) == SetIfExistsWithExpireIn(k, value, DefaultExpiration)

Flush ==
    /\ items' = cache_Flush
    /\ ret' = Void

\* DumpTo: Save's encoding reaches the writer, or the writer rejects it
DumpTo(sinkOk) ==
    /\ items' = items
    /\ buf' = IF sinkOk THEN Stream(cache_Save(items)) ELSE Unreadable
    /\ ret' = Returned(0, sinkOk)

\* LoadFrom: a stream that does not decode is an error and changes nothing
LoadFrom ==
    /\ items' = IF ~buf.readable THEN items ELSE cache_Load(items, buf.bytes)
    /\ ret' = Returned(0, buf.readable)

\* New: the store as go-cache constructs it, with no items
New(de, ci) ==
    /\ items = EmptyItems
    /\ defaultExpiration = NormalizeDefault(de)
    /\ cleanupInterval = ci
    /\ cmu = NoProc

\* ------------------------------------------------------------ NumericCache
\* faulty variant: v = delta instead of v += delta
Increment_assigns(k, d) ==
    /\ mu = NoProc
    /\ LET g == Get(k)
       IN  IF ~g.ok
           THEN /\ items' = items
                /\ ret' = Returned(g.result, FALSE)
           ELSE /\ items' = cache_Set(items, k, Wrap(d), DefaultExpiration)
                /\ ret' = Returned(Wrap(d), TRUE)

\* faulty variant: the write-back keeps the entry's expiration
Increment_keepsExpiration(k, d) ==
    /\ mu = NoProc
    /\ LET g == Get(k)
       IN  IF ~g.ok
           THEN /\ items' = items
                /\ ret' = Returned(g.result, FALSE)
           ELSE /\ items' = Put(items, k, Item(Wrap(g.result + d),
                                               items[k].Expiration))
                /\ ret' = Returned(Wrap(g.result + d), TRUE)

\* Increment run from Lock to Unlock with no other goroutine in between
Increment(k, d) ==
    /\ mu = NoProc
    /\ LET g == Get(k)
       IN  IF ~g.ok
           THEN /\ items' = items
                /\ ret' = Returned(g.result, FALSE)
           ELSE /\ items' = cache_Set(items, k, Wrap(g.result + d), DefaultExpiration)
                /\ ret' = Returned(Wrap(g.result + d), TRUE)

\* faulty variant: Decrement passes delta on as it is
Negate_identity(d) == d

\* -delta in T
Negate(d) == Wrap(Modulus - d)

Decrement(k, d) == Increment(k, Negate(d))

NewNumericCache(de, ci) ==
    /\ New(de, ci)
    /\ mu = NoProc

\* ------------------------------------------------------------------ calls
\* One step per call of a public method, with inputs from the input sets.
\* call records the step: the method, its key and, when it stored an item,
\* the value and duration it was given (a refused conditional write stored
\* nothing and records none).
Attempt(op, k, x, d) ==
    call' = IF ret'.ok THEN Call(op, k, x, d) ELSE Call(op, k, 0, 0)

CallSet ==
    \E k \in Keys, x \in SomeValues :
        /\ Set(k, x)
        /\ call' = Call("Set", k, x, DefaultExpiration)
        /\ UNCHANGED <<now, storeVars, buf, procVars>>

CallSetWithExpireIn ==
    \E k \in Keys, x \in SomeValues, d \in Durations :
        /\ SetWithExpireIn(k, x, d)
        /\ call' = Call("SetWithExpireIn", k, x, d)
        /\ UNCHANGED <<now, storeVars, buf, procVars>>

CallGet ==
    \E k \in Keys :
        /\ ret' = Get(k)
        /\ call' = Call("Get", k, 0, 0)
        /\ UNCHANGED <<items, now, storeVars, buf, procVars>>

CallDelete ==
    \E k \in Keys :
        /\ Delete(k)
        /\ call' = Call("Delete", k, 0, 0)
        /\ UNCHANGED <<now, storeVars, buf, procVars>>

CallDeleteExpired ==
    /\ DeleteExpired
    /\ call' = Call("DeleteExpired", NoKey, 0, 0)
    /\ UNCHANGED <<now, storeVars, buf, procVars>>

CallAdd ==
    \E k \in Keys, x \in SomeValues :
        /\ Add(k, x)
        /\ Attempt("Add", k, x, DefaultExpiration)
        /\ UNCHANGED <<now, storeVars, buf, procVars>>

CallAddWithExpireIn ==
    \E k \in Keys, x \in SomeValues, d \in Durations :
        /\ AddWithExpireIn(k, x, d)
        /\ Attempt("AddWithExpireIn", k, x, d)
        /\ UNCHANGED <<now, storeVars, buf, procVars>>

CallSetIfNotExists ==
    \E k \in Keys, x \in SomeValues :
        /\ SetIfNotExists(k, x)
        /\ Attempt("SetIfNotExists", k, x, DefaultExpiration)
        /\ UNCHANGED <<now, storeVars, buf, procVars>>

CallSetIfNotExistsWithExpireIn ==
    \E k \in Keys, x \in SomeValues, d \in Durations :
        /\ SetIfNotExistsWithExpireIn(k, x, d)
        /\ Attempt("SetIfNotExistsWithExpireIn", k, x, d)
        /\ UNCHANGED <<now, storeVars, buf, procVars>>

CallReplace ==
    \E k \in Keys, x \in SomeValues :
        /\ Replace(k, x)
        /\ Attempt("Replace", k, x, DefaultExpiration)
        /\ UNCHANGED <<now, storeVars, buf, procVars>>

CallReplaceWithExpireIn ==
    \E k \in Keys, x \in SomeValues, d \in Durations :
        /\ ReplaceWithExpireIn(k, x, d)
        /\ Attempt("ReplaceWithExpireIn", k, x, d)
        /\ UNCHANGED <<now, storeVars, buf, procVars>>

CallSetIfExists ==
    \E k \in Keys, x \in SomeValues :
        /\ SetIfExists(k, x)
        /\ Attempt("SetIfExists", k, x, DefaultExpiration)
        /\ UNCHANGED <<now, storeVars, buf, procVars>>

CallSetIfExistsWithExpireIn ==
    \E k \in Keys, x \in SomeValues, d \in Durations :
        /\ SetIfExistsWithExpireIn(k, x, d)
        /\ Attempt("SetIfExistsWithExpireIn", k, x, d)
        /\ UNCHANGED <<now, storeVars, buf, procVars>>

CallFlush ==
    /\ Flush
    /\ call' = Call("Flush", NoKey, 0, 0)
    /\ UNCHANGED <<now, storeVars, buf, procVars>>

CallDumpTo ==
    \E sinkOk \in BOOLEAN :
        /\ DumpTo(sinkOk)
        /\ call' = Call("DumpTo", NoKey, 0, 0)
        /\ UNCHANGED <<now, storeVars, procVars>>

CallLoadFrom ==
    /\ LoadFrom
    /\ call' = Call("LoadFrom", NoKey, 0, 0)
    /\ UNCHANGED <<now, storeVars, buf, procVars>>

CallIncrement ==
    \E k \in Keys, d \in SomeDeltas :
        /\ Increment(k, d)
        /\ call' = Call("Increment", k, d, 0)
        /\ UNCHANGED <<now, storeVars, buf, procVars>>

CallDecrement ==
    \E k \in Keys, d \in SomeDeltas \cup {MinSigned} :
        /\ Decrement(k, d)
        /\ call' = Call("Decrement", k, d, 0)
        /\ UNCHANGED <<now, storeVars, buf, procVars>>

\* ------------------------------------------------------- clock and janitor
\* time.Now() advances
Tick ==
    /\ now < MaxTime
    /\ now' = now + 1
    /\ call' = Call("Tick", NoKey, 0, 0)
    /\ ret' = Void
    /\ UNCHANGED <<items, storeVars, buf, procVars>>

\* faulty variant: the janitor's sweep removes nothing
Janitor_sweepsNothing ==
    /\ cleanupInterval > 0
    /\ items' = items
    /\ call' = Call("janitor", NoKey, 0, 0)
    /\ ret' = Void
    /\ UNCHANGED <<now, storeVars, buf, procVars>>

\* go-cache's janitor, started by New when cleanupInterval > 0: one sweep
Janitor ==
    /\ cleanupInterval > 0
    /\ items' = cache_DeleteExpired(items)
    /\ call' = Call("janitor", NoKey, 0, 0)
    /\ ret' = Void
    /\ UNCHANGED <<now, storeVars, buf, procVars>>

\* ------------------------------------------------------------ specification
\* The state New / NewNumericCache leaves, at clock reading 1
Constructed(de, ci) ==
    /\ NewNumericCache(de, ci)
    /\ now = 1
    /\ call = Call("New", NoKey, 0, 0)
    /\ ret = Void
    /\ wrote = [k \in Keys |-> NoWrite]
    /\ buf = Unreadable
    /\ pc = [p \in Procs |-> "idle"]
    /\ key = [p \in Procs |-> NoKey]
    /\ delta = [p \in Procs |-> 0]
    /\ v = [p \in Procs |-> 0]

Init == \E de \in DefaultArgs, ci \in CleanupArgs : Constructed(de, ci)

\* A step of a specification that keeps no record in wrote
Plain(A) == A /\ UNCHANGED wrote

\* Spec: one caller using the GenericCache methods, the clock, the janitor
Next ==
    \/ Plain(CallSet)
    \/ Plain(CallSetWithExpireIn)
    \/ Plain(CallGet)
    \/ Plain(CallDelete)
    \/ Plain(CallDeleteExpired)
    \/ Plain(CallAdd)
    \/ Plain(CallAddWithExpireIn)
    \/ Plain(CallSetIfNotExists)
    \/ Plain(CallSetIfNotExistsWithExpireIn)
    \/ Plain(CallReplace)
    \/ Plain(CallReplaceWithExpireIn)
    \/ Plain(CallSetIfExists)
    \/ Plain(CallSetIfExistsWithExpireIn)
    \/ Plain(CallFlush)
    \/ Plain(Tick)
    \/ Plain(Janitor)

Spec == Init /\ [][Next]_vars

\* ------------------------------------------------- claims on the store API
AddOps ==
    {"Add", "AddWithExpireIn", "SetIfNotExists", "SetIfNotExistsWithExpireIn"}
ReplaceOps ==
    {"Replace", "ReplaceWithExpireIn", "SetIfExists", "SetIfExistsWithExpireIn"}
SetOps == {"Set", "SetWithExpireIn"}

\* an entry still in the store whose expiration time has passed
ExpiredPresent(k) == k \in DOMAIN items /\ Expired(items[k])

\* every key but k is held, or not held, exactly as before the step
OthersKept(k) ==
    \A j \in Keys \ {k} :
        /\ (j \in DOMAIN items') = (j \in DOMAIN items)
        /\ j \in DOMAIN items => items'[j] = items[j]

\* C4: Add / AddWithExpireIn / SetIfNotExists (and its WithExpireIn form) on
\* a key that has a live entry returns false and leaves the whole store as
\* it was: the key keeps its value and its expiration time.
C4_AddOnLiveKeyRefused ==
    [][(call'.op \in AddOps /\ Found(items, call'.key))
        => (~ret'.ok /\ items' = items)]_vars

\* reached: an Add has just been refused on a key holding a live entry
C4_Witness ==
    /\ call.op \in AddOps
    /\ ~ret.ok
    /\ Found(items, call.key)

\* C5: Replace / ReplaceWithExpireIn / SetIfExists (and its WithExpireIn
\* form) returns true exactly when the key has a live entry at the call, and
\* then the key holds the new value; otherwise the store is unchanged, and on
\* a key with no entry Get still returns not-found.
C5_ReplaceIffLive ==
    [][\A k \in Keys : (call'.op \in ReplaceOps /\ call'.key = k) =>
            /\ ret'.ok = Found(items, k)
            /\ ret'.ok => /\ Get(k)' = Returned(call'.value, TRUE)
                          /\ OthersKept(k)
            /\ ~ret'.ok => items' = items
            /\ k \notin DOMAIN items => (~ret'.ok /\ ~Get(k)'.ok)]_vars

\* reached: SetIfExists has just replaced a live entry's value
C5_Witness ==
    /\ call.op = "SetIfExists"
    /\ ret.ok
    /\ Get(call.key) = Returned(call.value, TRUE)

\* C6: an entry that is in the store but expired counts as absent for the
\* conditional writes: an Add on its key returns true and Get then returns
\* the new value; a Replace on its key returns false and changes nothing.
C6_ExpiredEntryCountsAsAbsent ==
    [][\A k \in Keys : (call'.key = k /\ ExpiredPresent(k)) =>
            /\ call'.op \in AddOps =>
                  (ret'.ok /\ Get(k)' = Returned(call'.value, TRUE))
            /\ call'.op \in ReplaceOps => (~ret'.ok /\ items' = items)]_vars

\* reached: a Replace has just been refused on an expired, unswept entry
C6_Witness ==
    /\ call.op \in ReplaceOps
    /\ ~ret.ok
    /\ ExpiredPresent(call.key)

\* When an item stops being live: never, or from a clock reading on
Never == [never |-> TRUE, at |-> 0]
At(t) == [never |-> FALSE, at |-> t]
Deadline(it) == IF it.Expiration = 0 THEN Never ELSE At(it.Expiration)

\* a step that stored an item under call'.key
Wrote == call'.op \in (SetOps \cup AddOps \cup ReplaceOps) /\ ret'.ok

\* C9 as stated: the expiration a write records is never for NoExpiration,
\* now + default for DefaultExpiration (never if the default is
\* NoExpiration), and now + requested for every other duration.
C9_AsStated ==
    [][Wrote =>
        LET d == call'.expireIn
        IN  Deadline(items'[call'.key]) =
                IF d = NoExpiration THEN Never
                ELSE IF d = DefaultExpiration
                     THEN IF defaultExpiration = NoExpiration THEN Never
                          ELSE At(now + defaultExpiration)
                     ELSE At(now + d)]_vars

\* C9 (amended): the expiration a write records is never for every negative
\* duration (NoExpiration among them); for DefaultExpiration it is now +
\* default when the default is positive and never otherwise; it is now +
\* requested for every positive duration.  Neither sentinel makes the item
\* expire at once: Get finds it right after the write.
C9_RecordedExpiration ==
    [][\A k \in Keys : (Wrote /\ call'.key = k) =>
        LET d == call'.expireIn
            e == Deadline(items'[k])
        IN  /\ d < 0 => e = Never
            /\ d > 0 => e = At(now + d)
            /\ (d = DefaultExpiration /\ defaultExpiration > 0)
                  => e = At(now + defaultExpiration)
            /\ (d = DefaultExpiration /\ defaultExpiration <= 0) => e = Never
            /\ d \in {NoExpiration, DefaultExpiration} => Get(k)'.ok]_vars

\* reached: a write with a negative duration other than NoExpiration has
\* stored an item that never expires
C9_Witness ==
    /\ call.op = "SetWithExpireIn"
    /\ call.expireIn < NoExpiration
    /\ Deadline(items[call.key]) = Never

\* ------------------------------------------------------ SpecTTL: lifetimes
\* wrote after a step: a Set / SetWithExpireIn is recorded under its key with
\* the clock reading of the call; a later delete of the key, or a later
\* write to it by another method, removes the record.  The clock, Get and
\* the sweeps leave the records alone.
Track ==
    LET c == call'
    IN  IF c.op \in SetOps
        THEN [wrote EXCEPT ![c.key] =
                  [value |-> c.value, at |-> now, expireIn |-> c.expireIn]]
        ELSE IF c.op = "Flush"
        THEN [k \in Keys |-> NoWrite]
        ELSE IF c.op = "Delete" \/ (c.op \in AddOps \cup ReplaceOps /\ ret'.ok)
        THEN [wrote EXCEPT ![c.key] = NoWrite]
        ELSE wrote

Tracked(A) == A /\ wrote' = Track

NextTTL ==
    \/ Tracked(CallSet)
    \/ Tracked(CallSetWithExpireIn)
    \/ Tracked(CallGet)
    \/ Tracked(CallDelete)
    \/ Tracked(CallDeleteExpired)
    \/ Tracked(CallAdd)
    \/ Tracked(CallReplace)
    \/ Tracked(CallFlush)
    \/ Tracked(Tick)
    \/ Tracked(Janitor)

SpecTTL == Init /\ [][NextTTL]_vars

\* the time-to-live a recorded Set asked for: its duration, or the cache
\* default when it passed DefaultExpiration
TTL(w) == IF w.expireIn = DefaultExpiration THEN defaultExpiration ELSE w.expireIn

\* C1: after SetWithExpireIn(k, v, ttl) with ttl > 0 at time t (or Set(k, v)
\* under a positive default), and no later write or delete of k, Get(k)
\* returns (v, true) while now <= t + ttl and (zero, false) once now > t + ttl,
\* whether or not a sweep has run.
C1_LiveUntilDeadline ==
    \A k \in Keys :
        (wrote[k] # NoWrite /\ TTL(wrote[k]) > 0) =>
            Get(k) = IF now <= wrote[k].at + TTL(wrote[k])
                     THEN Returned(wrote[k].value, TRUE)
                     ELSE Returned(0, FALSE)

\* reached: Get has just returned not-found for a key whose Set, with a
\* positive ttl, is past its deadline, the entry still being in the store
C1_Witness ==
    \E k \in Keys :
        /\ call = Call("Get", k, 0, 0)
        /\ ~ret.ok
        /\ wrote[k] # NoWrite
        /\ TTL(wrote[k]) > 0
        /\ now > wrote[k].at + TTL(wrote[k])
        /\ k \in DOMAIN items

\* C10: an entry written with SetWithExpireIn(k, v, NoExpiration) is never
\* evicted by time: until k is deleted, flushed or overwritten, Get(k)
\* returns (v, true) at every later time, through every sweep.
C10_NoExpirationStays ==
    \A k \in Keys :
        (wrote[k] # NoWrite /\ wrote[k].expireIn = NoExpiration) =>
            Get(k) = Returned(wrote[k].value, TRUE)

\* reached: the janitor has just swept, at the last clock reading, a store
\* holding an entry that was written with NoExpiration at the first one
C10_Witness ==
    \E k \in Keys :
        /\ call.op = "janitor"
        /\ wrote[k] # NoWrite
        /\ wrote[k].expireIn = NoExpiration
        /\ wrote[k].at = 1
        /\ now = MaxTime

\* ------------------------------------------- SpecNum: one NumericCache caller
NextNum ==
    \/ Plain(CallSetWithExpireIn)
    \/ Plain(CallIncrement)
    \/ Plain(CallDecrement)
    \/ Plain(CallGet)
    \/ Plain(CallDelete)
    \/ Plain(Tick)
    \/ Plain(Janitor)

SpecNum == Init /\ [][NextNum]_vars

\* C3: Increment(k, delta) run without interference: on a live entry with
\* value v it returns (v + delta, true) and a following Get(k) returns the
\* same; on an absent or expired entry (swept or not) it returns (zero,
\* false) and leaves the store exactly as it was.
C3_IncrementReference ==
    [][\A k \in Keys : (call'.op = "Increment" /\ call'.key = k) =>
        IF Found(items, k)
        THEN /\ ret' = Returned(Wrap(items[k].Object + call'.value), TRUE)
             /\ Get(k)' = ret'
        ELSE /\ ret' = Returned(0, FALSE)
             /\ items' = items]_vars

\* reached: Increment has just returned not-found on an expired entry that
\* no sweep has removed
C3_Witness ==
    /\ call.op = "Increment"
    /\ ~ret.ok
    /\ ExpiredPresent(call.key)

\* C7: a successful Increment or Decrement at time t leaves the entry with
\* the cache default expiration, t + defaultExpiration, or never when the
\* default is NoExpiration, whatever expiration the entry had before.
C7_IncrementResetsTTL ==
    [][\A k \in Keys :
        (call'.op \in {"Increment", "Decrement"} /\ call'.key = k /\ ret'.ok) =>
            /\ defaultExpiration = NoExpiration =>
                  Deadline(items'[k]) = Never
            /\ defaultExpiration > 0 =>
                  Deadline(items'[k]) = At(now + defaultExpiration)]_vars

\* reached: after the first clock reading, an Increment has succeeded and
\* the entry's expiration is the call's time plus a positive default
C7_Witness ==
    /\ call.op = "Increment"
    /\ ret.ok
    /\ now > 1
    /\ defaultExpiration > 0
    /\ Deadline(items[call.key]) = At(now + defaultExpiration)

\* ------------------------------------- SpecInc: concurrent Increment calls
\* Each goroutine p makes one Increment or Decrement call, a step per
\* statement of Increment; pc[p] is the statement it is about to execute.
\* These steps leave call and ret, the record of the direct callers, alone.
otherVars == <<now, storeVars, call, ret, wrote, buf>>

\* Increment(key, delta) is called
IncCall(p) ==
    /\ pc[p] = "idle"
    /\ \E k \in Keys, d \in SomeDeltas :
        /\ key' = [key EXCEPT ![p] = k]
        /\ delta' = [delta EXCEPT ![p] = d]
    /\ pc' = [pc EXCEPT ![p] = "Lock"]
    /\ UNCHANGED <<items, mu, v, otherVars>>

\* Decrement(key, delta) is called: Increment(key, -delta)
DecCall(p) ==
    /\ pc[p] = "idle"
    /\ \E k \in Keys, d \in SomeDeltas :
        /\ key' = [key EXCEPT ![p] = k]
        /\ delta' = [delta EXCEPT ![p] = Negate(d)]
    /\ pc' = [pc EXCEPT ![p] = "Lock"]
    /\ UNCHANGED <<items, mu, v, otherVars>>

\* faulty variant: Lock does not wait for the holder
IncLock_noWait(p) ==
    /\ pc[p] = "Lock"
    /\ mu' = p
    /\ pc' = [pc EXCEPT ![p] = "Get"]
    /\ UNCHANGED <<items, key, delta, v, otherVars>>

\* n.mu.Lock(): blocks while another goroutine holds mu
IncLock(p) ==
    /\ pc[p] = "Lock"
    /\ mu = NoProc
    /\ mu' = p
    /\ pc' = [pc EXCEPT ![p] = "Get"]
    /\ UNCHANGED <<items, key, delta, v, otherVars>>

\* faulty variant: the lock covers the read only
IncGet_releases(p) ==
    /\ pc[p] = "Get"
    /\ v' = [v EXCEPT ![p] = Get(key[p]).result]
    /\ pc' = [pc EXCEPT ![p] = IF Get(key[p]).ok THEN "Set" ELSE "Miss"]
    /\ mu' = NoProc
    /\ UNCHANGED <<items, key, delta, otherVars>>

\* v, ok := n.Get(key); if !ok
IncGet(p) ==
    /\ pc[p] = "Get"
    /\ v' = [v EXCEPT ![p] = Get(key[p]).result]
    /\ pc' = [pc EXCEPT ![p] = IF Get(key[p]).ok THEN "Set" ELSE "Miss"]
    /\ UNCHANGED <<items, mu, key, delta, otherVars>>

\* faulty variant: the not-found path returns without Unlock
IncMiss_keepsLock(p) ==
    /\ pc[p] = "Miss"
    /\ pc' = [pc EXCEPT ![p] = "miss"]
    /\ UNCHANGED <<items, mu, key, delta, v, otherVars>>

\* n.mu.Unlock(); return v, false
IncMiss(p) ==
    /\ pc[p] = "Miss"
    /\ mu' = NoProc
    /\ pc' = [pc EXCEPT ![p] = "miss"]
    /\ UNCHANGED <<items, key, delta, v, otherVars>>

\* faulty variant: the write-back adds delta to the value the key holds now
IncSet_rereads(p) ==
    /\ pc[p] = "Set"
    /\ LET cur == IF Get(key[p]).ok THEN Get(key[p]).result ELSE v[p]
       IN  /\ v' = [v EXCEPT ![p] = Wrap(cur + delta[p])]
           /\ items' = cache_Set(items, key[p], Wrap(cur + delta[p]), DefaultExpiration)
    /\ pc' = [pc EXCEPT ![p] = "Unlock"]
    /\ UNCHANGED <<mu, key, delta, otherVars>>

\* faulty variant: the write-back is a Replace, refused when the entry is gone
IncSet_replaces(p) ==
    /\ pc[p] = "Set"
    /\ v' = [v EXCEPT ![p] = Wrap(v[p] + delta[p])]
    /\ items' = cache_Replace(items, key[p], Wrap(v[p] + delta[p]),
                              DefaultExpiration).items
    /\ pc' = [pc EXCEPT ![p] = "Unlock"]
    /\ UNCHANGED <<mu, key, delta, otherVars>>

\* v += delta; n.Set(key, v)
IncSet(p) ==
    /\ pc[p] = "Set"
    /\ v' = [v EXCEPT ![p] = Wrap(v[p] + delta[p])]
    /\ items' = cache_Set(items, key[p], Wrap(v[p] + delta[p]), DefaultExpiration)
    /\ pc' = [pc EXCEPT ![p] = "Unlock"]
    /\ UNCHANGED <<mu, key, delta, otherVars>>

\* n.mu.Unlock(); return v, true
IncUnlock(p) ==
    /\ pc[p] = "Unlock"
    /\ mu' = NoProc
    /\ pc' = [pc EXCEPT ![p] = "done"]
    /\ UNCHANGED <<items, key, delta, v, otherVars>>

\* no Increment or Decrement call has been made yet
Quiet == \A p \in Procs : pc[p] = "idle"

\* a direct caller's Set, made before the Increment calls start
Seed == Quiet /\ Tracked(CallSet)

NextInc ==
    \/ Seed
    \/ \E p \in Procs : IncCall(p)
    \/ \E p \in Procs : DecCall(p)
    \/ \E p \in Procs : IncLock(p)
    \/ \E p \in Procs : IncGet(p)
    \/ \E p \in Procs : IncMiss(p)
    \/ \E p \in Procs : IncSet(p)
    \/ \E p \in Procs : IncUnlock(p)
    \/ Plain(Tick)
    \/ Plain(Janitor)

SpecInc == Init /\ [][NextInc]_vars

RECURSIVE SumDelta(_)
SumDelta(P) ==
    IF P = {} THEN 0
    ELSE LET p == CHOOSE q \in P : TRUE IN delta[p] + SumDelta(P \ {p})

AllReturned == \A p \in Procs : pc[p] \in {"done", "miss"}

\* the calls on k that returned true
Succeeded(k) == {p \in Procs : key[p] = k /\ pc[p] = "done"}

\* C2: no increment is lost.  Once all the concurrent calls have returned,
\* a key that was Set to x before them, that no other caller wrote, and that
\* is still live holds x plus the deltas of all the calls on it that
\* returned true, in T; so N calls of Increment(k, 1) on a key holding 0
\* leave it holding exactly N.
C2_NoLostIncrement ==
    \A k \in Keys :
        (AllReturned /\ wrote[k] # NoWrite /\ Found(items, k)) =>
            /\ items[k].Object = Wrap(wrote[k].value + SumDelta(Succeeded(k)))
            /\ (wrote[k].value = 0 /\ Succeeded(k) = Procs
                  /\ \A p \in Procs : delta[p] = 1)
                  => items[k].Object = NumProcs

\* reached: every goroutine has returned true from Increment(k, 1) on one
\* key k that held 0, and k holds the number of goroutines
C2_Witness ==
    \E k \in Keys :
        /\ wrote[k] # NoWrite /\ wrote[k].value = 0
        /\ \A p \in Procs : pc[p] = "done" /\ key[p] = k /\ delta[p] = 1
        /\ Found(items, k)
        /\ items[k].Object = NumProcs

\* ------------------------------------------------- SpecSnap: DumpTo/LoadFrom
InitSnap == Constructed(NoExpiration, 0)

NextSnap ==
    \/ Plain(CallSetWithExpireIn)
    \/ Plain(CallDelete)
    \/ Plain(CallDumpTo)
    \/ Plain(CallLoadFrom)
    \/ Plain(Tick)

SpecSnap == InitSnap /\ [][NextSnap]_vars

\* the item map the stream decodes to
Snapshot == Decode(buf.bytes)

\* a LoadFrom step that returned nil
Loaded == call'.op = "LoadFrom" /\ ret'.ok

\* C8 as stated: after a successful LoadFrom every key of the snapshot holds
\* the snapshot's value and expiration, also when the store held a live
\* entry for it; keys not in the snapshot are unchanged.
C8_AsStated ==
    [][Loaded =>
        /\ \A k \in DOMAIN Snapshot :
              k \in DOMAIN items' /\ items'[k] = Snapshot[k]
        /\ \A k \in Keys \ DOMAIN Snapshot :
              /\ (k \in DOMAIN items') = (k \in DOMAIN items)
              /\ k \in DOMAIN items => items'[k] = items[k]]_vars

\* C8 (amended): after a successful LoadFrom every key of the snapshot for
\* which the store held no live entry (none, or an expired one) holds the
\* snapshot's value and expiration; a key for which the store held a live
\* entry keeps that entry; keys not in the snapshot are unchanged.
C8_LoadKeepsLiveEntries ==
    [][Loaded =>
        /\ \A k \in DOMAIN Snapshot :
              /\ k \in DOMAIN items'
              /\ items'[k] = IF Found(items, k) THEN items[k] ELSE Snapshot[k]
        /\ \A k \in Keys \ DOMAIN Snapshot :
              /\ (k \in DOMAIN items') = (k \in DOMAIN items)
              /\ k \in DOMAIN items => items'[k] = items[k]]_vars

\* reached: a successful LoadFrom of a snapshot that holds a key with one
\* value has left the store's live entry for that key, with another value
C8_Witness ==
    /\ call.op = "LoadFrom"
    /\ ret.ok
    /\ \E k \in DOMAIN Snapshot :
          /\ Found(items, k)
          /\ items[k].Object # Snapshot[k].Object

\* ------------------------------------------------ claims on DeleteExpired
\* an entry whose expiration is a clock reading that the clock has passed
PastDeadline(it) == Deadline(it) # Never /\ now > Deadline(it).at

\* C11: DeleteExpired removes exactly the entries that are expired at the
\* time of the call (now > expiresAt) and nothing else: every live entry,
\* the never-expiring ones included, keeps its value and expiration and is
\* still returned by Get.
C11_DeleteExpiredExact ==
    [][call'.op = "DeleteExpired" =>
        \A k \in Keys :
            /\ (k \in DOMAIN items') =
                  (k \in DOMAIN items /\ ~PastDeadline(items[k]))
            /\ k \in DOMAIN items' =>
                  /\ items'[k] = items[k]
                  /\ Get(k)' = Returned(items[k].Object, TRUE)]_vars

\* reached: with no janitor, DeleteExpired has just returned; a key whose
\* Set still stands on record is gone from the store, swept after its
\* deadline, and the store still holds an entry whose deadline has not
\* passed
C11_Witness ==
    /\ call.op = "DeleteExpired"
    /\ cleanupInterval = 0
    /\ \E k \in Keys : wrote[k] # NoWrite /\ k \notin DOMAIN items
    /\ \E j \in DOMAIN items : items[j].Expiration > 0 /\ Get(j).ok

\* ---------------------------------------------- SpecAdd: concurrent Add calls
\* Each goroutine p makes one Add (or SetIfNotExists) call; both reach
\* g.cache.Add with DefaultExpiration.  go-cache's Add runs under the store's
\* mutex: Lock, look the key up, then either Unlock and return an error or
\* set the item, Unlock and return nil.  One step per statement.
AddCall(p) ==
    /\ pc[p] = "idle"
    /\ \E k \in Keys, x \in SomeValues :
        /\ key' = [key EXCEPT ![p] = k]
        /\ v' = [v EXCEPT ![p] = x]
    /\ pc' = [pc EXCEPT ![p] = "AddLock"]
    /\ UNCHANGED <<items, mu, delta, otherVars>>

\* faulty variant: the store's Lock does not wait for the holder
AddLock_noWait(p) ==
    /\ pc[p] = "AddLock"
    /\ cmu' = p
    /\ pc' = [pc EXCEPT ![p] = "AddFind"]
    /\ UNCHANGED <<items, now, defaultExpiration, cleanupInterval, call, ret,
                   wrote, buf, mu, key, delta, v>>

\* c.mu.Lock() inside g.cache.Add
AddLock(p) ==
    /\ pc[p] = "AddLock"
    /\ cmu = NoProc
    /\ cmu' = p
    /\ pc' = [pc EXCEPT ![p] = "AddFind"]
    /\ UNCHANGED <<items, now, defaultExpiration, cleanupInterval, call, ret,
                   wrote, buf, mu, key, delta, v>>

\* _, found := c.get(k); if found
AddFind(p) ==
    /\ pc[p] = "AddFind"
    /\ pc' = [pc EXCEPT ![p] = IF Found(items, key[p]) THEN "AddErr" ELSE "AddSet"]
    /\ UNCHANGED <<items, mu, key, delta, v, otherVars>>

\* c.mu.Unlock(); return an error: AddWithExpireIn returns false
AddErr(p) ==
    /\ pc[p] = "AddErr"
    /\ cmu' = NoProc
    /\ pc' = [pc EXCEPT ![p] = "refused"]
    /\ UNCHANGED <<items, now, defaultExpiration, cleanupInterval, call, ret,
                   wrote, buf, mu, key, delta, v>>

\* c.set(k, x, d)
AddSet(p) ==
    /\ pc[p] = "AddSet"
    /\ items' = cache_Set(items, key[p], v[p], DefaultExpiration)
    /\ pc' = [pc EXCEPT ![p] = "AddUnlock"]
    /\ UNCHANGED <<mu, key, delta, v, otherVars>>

\* c.mu.Unlock(); return nil: AddWithExpireIn returns true
AddUnlock(p) ==
    /\ pc[p] = "AddUnlock"
    /\ cmu' = NoProc
    /\ pc' = [pc EXCEPT ![p] = "added"]
    /\ UNCHANGED <<items, now, defaultExpiration, cleanupInterval, call, ret,
                   wrote, buf, mu, key, delta, v>>

\* the janitor's sweep takes the store's mutex like every store method
NextAdd ==
    \/ Seed
    \/ \E p \in Procs : AddCall(p)
    \/ \E p \in Procs : AddLock(p)
    \/ \E p \in Procs : AddFind(p)
    \/ \E p \in Procs : AddErr(p)
    \/ \E p \in Procs : AddSet(p)
    \/ \E p \in Procs : AddUnlock(p)
    \/ Plain(Tick)
    \/ cmu = NoProc /\ Plain(Janitor)

SpecAdd == Init /\ [][NextAdd]_vars

AllAdded == \A p \in Procs : pc[p] \in {"added", "refused"}

\* the Add calls on k, and those of them that returned true
AddCallers(k) == {p \in Procs : key[p] = k}
AddWinners(k) == {p \in AddCallers(k) : pc[p] = "added"}

\* no entry an Add call could have stored has reached its deadline: the
\* calls store under the cache default, at clock reading 1 or later
NoAddExpired == defaultExpiration > 0 => now <= 1 + defaultExpiration

\* C12: store operations are atomic.  When several callers concurrently
\* call Add (or SetIfNotExists) on one key, and no entry they store expires
\* meanwhile, at most one call returns true and the key then holds that
\* caller's value; when the key had no entry before the calls, exactly one
\* call returns true and all the others return false.
C12_OneAddWins ==
    \A k \in Keys :
        (AllAdded /\ NoAddExpired) =>
            /\ Cardinality(AddWinners(k)) <= 1
            /\ \A w \in AddWinners(k) : Get(k) = Returned(v[w], TRUE)
            /\ (wrote[k] = NoWrite /\ AddCallers(k) # {}) =>
                  Cardinality(AddWinners(k)) = 1

\* reached: all goroutines called Add on one key that had no entry, with
\* values that are not all the same; one has returned true, the others
\* false, and the key holds the value of the one that returned true
C12_Witness ==
    \E k \in Keys, w \in Procs :
        /\ wrote[k] = NoWrite
        /\ AllAdded
        /\ AddCallers(k) = Procs
        /\ AddWinners(k) = {w}
        /\ \E p \in Procs : v[p] # v[w]
        /\ Get(k) = Returned(v[w], TRUE)

\* --------------------- SpecRace: Increment against direct Set, Delete, Flush
\* One goroutine makes an Increment call, a step per statement as in SpecInc,
\* while a direct caller's Set, Delete and Flush go to the store at any time:
\* those methods do not take NumericCache.mu.  The cache has no janitor.
InitRace == \E de \in DefaultArgs : Constructed(de, 0)

NextRace ==
    \/ Plain(CallSet)
    \/ Plain(CallDelete)
    \/ Plain(CallFlush)
    \/ \E p \in Procs : Quiet /\ IncCall(p)
    \/ \E p \in Procs : IncLock(p)
    \/ \E p \in Procs : IncGet(p)
    \/ \E p \in Procs : IncMiss(p)
    \/ \E p \in Procs : IncSet(p)
    \/ \E p \in Procs : IncUnlock(p)
    \/ Plain(Tick)

SpecRace == InitRace /\ [][NextRace]_vars

\* goroutine p takes its write-back step
WritesBack(p) == pc[p] = "Set" /\ pc'[p] = "Unlock"

\* p is the only goroutine that has called Increment
OnlyCaller(p) == \A q \in Procs \ {p} : pc[q] = "idle"

\* C13: the wrapper lock does not serialize Increment against direct
\* writes.  Increment's write-back stores the value it read plus delta,
\* whatever the key holds by then: a Set(k, x) that another caller made
\* between the read of v and the write-back is overwritten, k holds v + d
\* and x is lost.
C13_WriteBackOverwrites ==
    [][\A p \in Procs, k \in Keys : (WritesBack(p) /\ key[p] = k) =>
          /\ k \in DOMAIN items'
          /\ items'[k].Object = Wrap(v[p] + delta[p])
          /\ v'[p] = Wrap(v[p] + delta[p])]_vars

\* reached: goroutine p alone called Increment(k, d) and has written back;
\* the last direct call is a Set(k, x); k holds p's v + d, which is neither
\* x nor x + d: the Set came after p's read and before its write-back, and
\* its value is lost
C13_Witness ==
    \E p \in Procs :
        /\ pc[p] \in {"Unlock", "done"}
        /\ OnlyCaller(p)
        /\ call.op = "Set"
        /\ call.key = key[p]
        /\ Get(key[p]) = Returned(v[p], TRUE)
        /\ v[p] # call.value
        /\ v[p] # Wrap(call.value + delta[p])

\* the last direct call removed k, and nothing was sent to the store since
Removed(k) == call.op = "Flush" \/ (call.op = "Delete" /\ call.key = k)

\* C19 as stated: Increment never undoes a removal.  When goroutine p has
\* returned true from Increment(k, d), so that it read k before the removal,
\* and the last direct call is a Delete(k) or a Flush, with no other write to
\* k, Get(k) returns not-found.
C19_AsStated ==
    \A p \in Procs, k \in Keys :
        (pc[p] = "done" /\ key[p] = k /\ OnlyCaller(p) /\ Removed(k)) =>
            ~Get(k).ok

\* C19 (amended): Increment undoes a removal that falls between its read and
\* its write-back, and only that one.  A write-back that finds the entry gone
\* re-creates it with v + d, found by Get; after both calls have returned,
\* with no other write to k, Get(k) returns either not-found (the removal
\* came after the write-back) or the value Increment returned (the removal
\* came between the read and the write-back).
C19_RemovalUndoneMidway ==
    /\ [][\A p \in Procs, k \in Keys :
            (WritesBack(p) /\ key[p] = k /\ ~Get(k).ok) =>
                Get(k)' = Returned(Wrap(v[p] + delta[p]), TRUE)]_vars
    /\ [](\A p \in Procs, k \in Keys :
            (pc[p] = "done" /\ key[p] = k /\ OnlyCaller(p) /\ Removed(k)) =>
                (~Get(k).ok \/ Get(k) = Returned(v[p], TRUE)))

\* reached: p has returned true from Increment(k, d), the last direct call is
\* a Delete(k) and nothing followed it, yet Get(k) finds the value p returned
C19_Witness ==
    \E p \in Procs :
        /\ pc[p] = "done"
        /\ OnlyCaller(p)
        /\ call = Call("Delete", key[p], 0, 0)
        /\ Get(key[p]) = Returned(v[p], TRUE)

InitSweep ==
    \E de \in DefaultArgs, ci \in CleanupArgs \cup {NoExpiration} :
        Constructed(de, ci)

NextSweep ==
    \/ Tracked(CallSetWithExpireIn)
    \/ Tracked(CallGet)
    \/ Tracked(Tick)
    \/ Tracked(Janitor)

SpecSweep == InitSweep /\ [][NextSweep]_vars /\ WF_vars(Tracked(Janitor))

\* C15: with cleanupInterval > 0 the sweep keeps running, so every entry
\* that becomes expired eventually leaves the store without the caller
\* removing it, whatever the caller does meanwhile; with cleanupInterval <= 0
\* no sweep step ever occurs.
C15_SweepEventually ==
    /\ \A k \in Keys :
          (cleanupInterval > 0 /\ ExpiredPresent(k)) ~> ~ExpiredPresent(k)
    /\ [][cleanupInterval <= 0 => call'.op # "janitor"]_vars

\* reached: under a positive cleanupInterval the janitor has just swept, and
\* a key whose Set still stands on record is gone from the store
C15_Witness ==
    /\ cleanupInterval > 0
    /\ call.op = "janitor"
    /\ \E k \in Keys : wrote[k] # NoWrite /\ k \notin DOMAIN items

\* ------------------------------------------------------ claims on Decrement
\* a BitWidth-bit pattern read as a signed (two's complement) integer, and
\* an integer brought into the signed range of T
Signed(u) == IF u >= MinSigned THEN u - Modulus ELSE u
WrapSigned(x) == ((x + MinSigned) % Modulus) - MinSigned

\* C16: Decrement(k, d) returns and stores what Increment(k, -d) does.  On a
\* live value v it returns and stores (v - d) mod 2^w: read unsigned, where
\* -d wraps to 2^w - d, and read signed, where the difference wraps into the
\* signed range, also for d the most negative value; the entry gets the
\* default expiration of Increment's Set.  On a key with no live entry it
\* returns (zero, false) and changes nothing.
C16_DecrementSubtracts ==
    [][\A k \in Keys : (call'.op = "Decrement" /\ call'.key = k) =>
        IF Found(items, k)
        THEN LET d == call'.value
                 r == (items[k].Object - d) % Modulus
             IN  /\ ret' = Returned(r, TRUE)
                 /\ r = (items[k].Object + ((Modulus - d) % Modulus)) % Modulus
                 /\ Signed(r) = WrapSigned(Signed(items[k].Object) - Signed(d))
                 /\ items' = Put(items, k, Item(r, Expiration(DefaultExpiration)))
        ELSE /\ ret' = Returned(0, FALSE)
             /\ items' = items]_vars

\* reached: Decrement(k, d) with d the most negative signed value has
\* returned true on a key that held 0: the result is d itself
C16_Witness ==
    /\ call.op = "Decrement"
    /\ call.value = MinSigned
    /\ ret = Returned(MinSigned, TRUE)
    /\ Signed(ret.result) < 0

\* ------------------------------------------------------------ claims on Get
\* C17: Get never changes the store.  It returns the value only for a
\* present entry whose deadline has not passed; on an expired entry it
\* returns not-found and leaves the entry in place, so that a second Get at
\* once returns not-found too; and with no sweep configured an expired entry
\* leaves the store only by Delete, DeleteExpired or Flush, and changes only
\* by a write to its key.
C17_GetLeavesStore ==
    [][\A k \in Keys :
        /\ (call'.op = "Get" /\ call'.key = k) =>
              /\ items' = items
              /\ ret' = IF k \in DOMAIN items /\ ~PastDeadline(items[k])
                        THEN Returned(items[k].Object, TRUE)
                        ELSE Returned(0, FALSE)
              /\ Get(k)' = ret'
        /\ (cleanupInterval <= 0 /\ ExpiredPresent(k)) =>
              /\ k \notin DOMAIN items' =>
                    call'.op \in {"Delete", "DeleteExpired", "Flush"}
              /\ (k \in DOMAIN items' /\ items'[k] # items[k]) =>
                    (call'.op \in SetOps \cup AddOps /\ call'.key = k)]_vars

\* reached: with no sweep configured, Get has just returned not-found for a
\* key whose expired entry is still in the store
C17_Witness ==
    /\ cleanupInterval = 0
    /\ call.op = "Get"
    /\ ~ret.ok
    /\ ExpiredPresent(call.key)

\* ------------------------------------------- SpecLock: the wrapper's mutex
\* The goroutines of SpecInc on a cache without a janitor, scheduled fairly:
\* a goroutine that can take a step of Increment takes it, and sync's mutex
\* hands the lock to a goroutine that finds it free again and again.
NextLock ==
    \/ Seed
    \/ \E p \in Procs : IncCall(p)
    \/ \E p \in Procs : DecCall(p)
    \/ \E p \in Procs : IncLock(p)
    \/ \E p \in Procs : IncGet(p)
    \/ \E p \in Procs : IncMiss(p)
    \/ \E p \in Procs : IncSet(p)
    \/ \E p \in Procs : IncUnlock(p)

SpecLock ==
    /\ InitRace
    /\ [][NextLock]_vars
    /\ \A p \in Procs :
          /\ SF_vars(IncLock(p))
          /\ WF_vars(IncGet(p) \/ IncMiss(p) \/ IncSet(p) \/ IncUnlock(p))

\* goroutine p is between Lock and Unlock
Inside(p) == pc[p] \in {"Get", "Miss", "Set", "Unlock"}

\* C18: the wrapper lock is released on every return path of Increment and
\* Decrement, found and not-found: in every state exactly the goroutine
\* between Lock and Unlock holds the lock, so the lock is free whenever no
\* call is in progress, and every call that was made returns.
C18_LockReleased ==
    /\ [](\A p \in Procs : Inside(p) <=> mu = p)
    /\ []((\A p \in Procs : pc[p] \in {"idle", "done", "miss"}) => mu = NoProc)
    /\ \A p \in Procs : (pc[p] = "Lock") ~> (pc[p] \in {"done", "miss"})

\* reached: one goroutine has returned not-found, another has returned
\* true, and the lock is free
C18_Witness ==
    \E p \in Procs, q \in Procs :
        /\ pc[p] = "miss"
        /\ pc[q] = "done"
        /\ \A r \in Procs : pc[r] \in {"done", "miss"}
        /\ mu = NoProc

\* --------------------------------------- claims on concurrent Increments
\* C20: concurrent Increment calls are linearizable among themselves.  When
\* NumProcs goroutines have each returned true from Increment(k, 1) on a key
\* that was Set to v0 before them and that no other caller wrote, the values
\* they returned are exactly v0 + 1, ..., v0 + NumProcs, each returned by
\* one call; and the value a call returns is the value its write-back left
\* in the key.
C20_IncrementsLinearize ==
    /\ [][\A p \in Procs, k \in Keys : (WritesBack(p) /\ key[p] = k) =>
            Get(k)' = Returned(v'[p], TRUE)]_vars
    /\ [](\A k \in Keys :
            (/\ wrote[k] # NoWrite
             /\ Succeeded(k) = Procs
             /\ \A p \in Procs : delta[p] = 1) =>
                /\ {v[p] : p \in Procs} =
                      {Wrap(wrote[k].value + i) : i \in 1 .. NumProcs}
                /\ \A p \in Procs, q \in Procs : v[p] = v[q] => p = q)

\* reached: every goroutine has returned true from Increment(k, 1) on one
\* key that held 1, and the last value returned is the one the key holds
C20_Witness ==
    \E k \in Keys :
        /\ wrote[k] # NoWrite /\ wrote[k].value = 1
        /\ \A p \in Procs : pc[p] = "done" /\ key[p] = k /\ delta[p] = 1
        /\ \E p \in Procs : v[p] = 1 + NumProcs /\ Get(k) = Returned(v[p], TRUE)

====
